---- MODULE Spec2Model ----
(***************************************************************************)
(* A model of the OOGL wrapper: the element array (src/Arrays.js as        *)
(* bundled in src/Gruntfile.js, lines 873-993), the attribute array        *)
(* (lines 119-251), the attribute-array set (lines 286-846) and the        *)
(* OOGL(callback) entry point (src/unnamed/part_000, lines 37-43).         *)
(*                                                                         *)
(* JavaScript values.  An optional argument is a sequence: <<>> when the   *)
(* argument is omitted (undefined), <<v>> when v is passed.  A call whose  *)
(* behaviour depends on arguments.length takes the argument list itself.   *)
(*                                                                         *)
(* The buffer classes (src/Buffers.js) are not part of the sources at      *)
(* hand; their methods (constructor, bind, bindAndData, subData) are       *)
(* modelled from the specification ("wraps create/bind/data/subdata        *)
(* calls") and from the documentation comments of their callers.           *)
(***************************************************************************)
EXTENDS Integers, Sequences, FiniteSets, TLC

(***************************************************************************)
(* Bounds of the model.                                                    *)
(***************************************************************************)
MaxIndexLen == 2    \* longest index list handed to ElementArray
MaxDrawArg  == 1    \* largest offset / count argument of an element draw
MaxUpload   == 1    \* longest list the application uploads by itself
MaxArg      == 2    \* largest stride / offset / count argument elsewhere
MaxShift    == 1    \* largest magnitude of a vertex offset

\* Index values: the smallest one and the largest one of each storage width.
IndexValues == {0, 255, 65535}

RECURSIVE SeqsOfLen(_, _)
SeqsOfLen(S, n) ==
    IF n = 0 THEN {<<>>}
    ELSE {Append(s, v) : s \in SeqsOfLen(S, n - 1), v \in S}

SeqsUpTo(S, n) == UNION {SeqsOfLen(S, k) : k \in 0..n}

IndexLists   == SeqsUpTo(IndexValues, MaxIndexLen)
OptArgs      == {<<>>} \cup {<<v>> : v \in 0..MaxArg}
DrawArgs     == {<<>>} \cup {<<v>> : v \in 0..MaxDrawArg}
UploadLists  == SeqsUpTo(IndexValues, MaxUpload)
VertexShifts == {<<>>} \cup {<<v>> : v \in (0 - MaxShift)..MaxShift}
\* type-name arguments: omitted, the empty string, valid and invalid names
ElementTypeArgs == {<<>>, <<"">>, <<"ubyte">>, <<"ushort">>, <<"float">>, <<"uint">>}

(***************************************************************************)
(* JavaScript helpers.                                                     *)
(***************************************************************************)
MaxCalls == 2   \* most drawTrianglesBaseVertex calls in progress at once
MaxSlot  == 2   \* largest attribute slot the context state records

\* positions of a drawTrianglesBaseVertex call in progress: before its first
\* upload, before its draw, before its second upload
FrameKinds == [pc : {"upload", "draw", "restore"}, vertexOffset : VertexShifts]

NoneInFlight == [k \in FrameKinds |-> 0]

\* the context before any attribute call: no slot enabled, no pointer set,
\* nothing bound to ARRAY_BUFFER, no buffer deleted (0 is the null buffer)
FreshContext ==
    [enabled |-> {}, pointer |-> [k \in 0..MaxSlot |-> 0], arrayBuffer |-> 0,
     deleted |-> {}]

\* x || d on a number: undefined and 0 are falsy
OrDefault(x, d) == IF x = <<>> \/ x[1] = 0 THEN d ELSE x[1]

\* !x on a string argument: undefined and '' are falsy
FalsyString(x) == x = <<>> \/ x[1] = ""

NoObject == [kind |-> "none"]
NoError  == "none"

VARIABLES
    elements,   \* the ElementArray object of the program, or NoObject
    store,      \* contents of the element array's buffer in the context
    array,      \* the AttributeArray object of the program, or NoObject
    arrays,     \* the AttributeArrays set of the program, or NoObject
    nbuffers,   \* number of buffers created in the context
    calls,      \* calls issued by the last operation, in order
    thrown,     \* value thrown by the last operation, or NoError
    lastOp,     \* the last operation and its arguments
    domLoaded,  \* whether the DOMContentLoaded event has been dispatched
    listeners,  \* callbacks of the DOMContentLoaded listeners, in order of registration
    invoked,    \* invocations of user callbacks so far, in order
    inflight,   \* drawTrianglesBaseVertex calls in progress: how many at each position
    ctx         \* attribute state of the context: enabled slots, pointers, binding, deleted buffers

vars == <<elements, store, array, arrays, nbuffers, calls, thrown, lastOp,
          domLoaded, listeners, invoked, inflight, ctx>>

domVars  == <<domLoaded, listeners, invoked>>

(***************************************************************************)
(* Element arrays.                                                         *)
(***************************************************************************)
\* the `types` table of context.ElementArray
ElementArrayTypes ==
    [ubyte  |-> [glType |-> "UNSIGNED_BYTE",  size |-> 1],
     ushort |-> [glType |-> "UNSIGNED_SHORT", size |-> 2]]

ElementArrayTypeError == "Invalid element type, must be either \"ubyte\" or \"ushort\"."

\* conversion of a JavaScript array to the typed array of the buffer's type:
\* every entry is reduced modulo 2^(8 * size)
ToTyped(size, list) == [i \in 1..Len(list) |-> list[i] % (2 ^ (8 * size))]

\* buffer.bindAndData(data): the buffer's storage becomes the typed data
BindAndData(size, data) == ToTyped(size, data)

\* buffer.subData(offset, data) on storage st: the typed data overwrites the
\* storage from `offset` on; an upload that does not fit is rejected by the
\* context and leaves the storage as it is
SubData(size, st, offset, data) ==
    IF offset + Len(data) > Len(st) THEN st
    ELSE [i \in 1..Len(st) |->
            IF i > offset /\ i <= offset + Len(data)
            THEN ToTyped(size, data)[i - offset]
            ELSE st[i]]

SubDataCall(offset, data) == [fn |-> "subData", offset |-> offset, data |-> data]

\* context.drawElements(mode, count, type, offset), with the contents of the
\* element buffer the draw reads
DrawElementsCall(mode, count, glType, offset, st) ==
    [fn |-> "drawElements", mode |-> mode, count |-> count, type |-> glType,
     offset |-> offset, elementBuffer |-> st]

\* variant: the loop leaves the copy as it is
ShiftedIndices_NoShift(indices, vertexOffset) == indices

\* shiftedIndices after the loop of drawTrianglesBaseVertex
ShiftedIndices(indices, vertexOffset) ==
    [i \in 1..Len(indices) |-> indices[i] + vertexOffset]

\* context.ElementArray(indices, type)
NewElementArray(indices, type) ==
    /\ elements = NoObject
    /\ lastOp' = [name |-> "ElementArray", indices |-> indices, type |-> type]
    /\ LET t == IF FalsyString(type) THEN "ushort" ELSE type[1]
       IN  IF t \notin DOMAIN ElementArrayTypes
           THEN /\ thrown' = ElementArrayTypeError
                /\ calls' = <<>>
                /\ UNCHANGED <<elements, store, nbuffers>>
           ELSE /\ thrown' = NoError
                /\ nbuffers' = nbuffers + 1
                /\ elements' = [kind |-> "ElementArray", indices |-> indices,
                                type |-> t, all |-> Len(indices),
                                buffer |-> nbuffers + 1]
                /\ store' = BindAndData(ElementArrayTypes[t].size, indices)
                /\ calls' = <<[fn |-> "StaticElementArrayBuffer", type |-> t],
                              [fn |-> "bindAndData", data |-> indices]>>
    /\ UNCHANGED <<array, arrays, domVars, inflight, ctx>>

\* the body shared by buffer.drawTriangles, drawTriangleFan, drawTriangleStrip
DrawElementsHelper(name, mode, offset, count) ==
    /\ elements # NoObject
    /\ lastOp' = [name |-> name, offset |-> offset, count |-> count]
    /\ LET o == OrDefault(offset, 0)
           c == OrDefault(count, elements.all)
           t == ElementArrayTypes[elements.type]
       IN  calls' = <<DrawElementsCall(mode, c, t.glType, o * t.size, store)>>
    /\ thrown' = NoError
    /\ UNCHANGED <<elements, store, array, arrays, nbuffers, domVars, inflight, ctx>>

\* buffer.drawTriangles(offset, count)
drawTriangles(offset, count) ==
    DrawElementsHelper("drawTriangles", "TRIANGLES", offset, count)

\* buffer.drawTriangleFan(offset, count)
drawTriangleFan(offset, count) ==
    DrawElementsHelper("drawTriangleFan", "TRIANGLE_FAN", offset, count)

\* buffer.drawTriangleStrip(offset, count)
drawTriangleStrip(offset, count) ==
    DrawElementsHelper("drawTriangleStrip", "TRIANGLE_STRIP", offset, count)

\* variant: the original indices are not uploaded again after the draw
drawTrianglesBaseVertex_NoRestore(vertexOffset, offset, count) ==
    /\ elements # NoObject
    /\ lastOp' = [name |-> "drawTrianglesBaseVertex",
                  vertexOffset |-> vertexOffset, offset |-> offset, count |-> count]
    /\ LET indices == elements.indices
           o  == OrDefault(offset, 0)
           c  == OrDefault(count, elements.all)
           vo == OrDefault(vertexOffset, 0)
           t  == ElementArrayTypes[elements.type]
           shiftedIndices == ShiftedIndices(indices, vo)
           st1 == IF vo # 0 THEN SubData(t.size, store, 0, shiftedIndices) ELSE store
       IN  /\ calls' = (IF vo # 0 THEN <<SubDataCall(0, shiftedIndices)>> ELSE <<>>)
                       \o <<DrawElementsCall("TRIANGLES", c, t.glType, o * t.size, st1)>>
           /\ store' = st1
    /\ thrown' = NoError
    /\ UNCHANGED <<elements, array, arrays, nbuffers, domVars, inflight, ctx>>

\* variant: the two uploads are issued whatever the vertex offset
drawTrianglesBaseVertex_AlwaysUpload(vertexOffset, offset, count) ==
    /\ elements # NoObject
    /\ lastOp' = [name |-> "drawTrianglesBaseVertex",
                  vertexOffset |-> vertexOffset, offset |-> offset, count |-> count]
    /\ LET indices == elements.indices
           o  == OrDefault(offset, 0)
           c  == OrDefault(count, elements.all)
           vo == OrDefault(vertexOffset, 0)
           t  == ElementArrayTypes[elements.type]
           shiftedIndices == ShiftedIndices(indices, vo)
           st1 == SubData(t.size, store, 0, shiftedIndices)
           st2 == SubData(t.size, st1, 0, indices)
       IN  /\ calls' = <<SubDataCall(0, shiftedIndices),
                         DrawElementsCall("TRIANGLES", c, t.glType, o * t.size, st1),
                         SubDataCall(0, indices)>>
           /\ store' = st2
    /\ thrown' = NoError
    /\ UNCHANGED <<elements, array, arrays, nbuffers, domVars, inflight, ctx>>

\* buffer.drawTrianglesBaseVertex(vertexOffset, offset, count)
drawTrianglesBaseVertex(vertexOffset, offset, count) ==
    /\ elements # NoObject
    /\ lastOp' = [name |-> "drawTrianglesBaseVertex",
                  vertexOffset |-> vertexOffset, offset |-> offset, count |-> count]
    /\ LET indices == elements.indices
           o  == OrDefault(offset, 0)
           c  == OrDefault(count, elements.all)
           vo == OrDefault(vertexOffset, 0)
           t  == ElementArrayTypes[elements.type]
           shiftedIndices == ShiftedIndices(indices, vo)
           st1 == IF vo # 0 THEN SubData(t.size, store, 0, shiftedIndices) ELSE store
           st2 == IF vo # 0 THEN SubData(t.size, st1, 0, indices) ELSE st1
       IN  /\ calls' = (IF vo # 0 THEN <<SubDataCall(0, shiftedIndices)>> ELSE <<>>)
                       \o <<DrawElementsCall("TRIANGLES", c, t.glType, o * t.size, st1)>>
                       \o (IF vo # 0 THEN <<SubDataCall(0, indices)>> ELSE <<>>)
           /\ store' = st2
    /\ thrown' = NoError
    /\ UNCHANGED <<elements, array, arrays, nbuffers, domVars, inflight, ctx>>

\* the application uploads other contents: elements.subData(0, data)
AppSubData(data) ==
    /\ elements # NoObject
    /\ Len(data) >= 1 /\ Len(data) <= Len(store)
    /\ lastOp' = [name |-> "subData", offset |-> 0, data |-> data]
    /\ store' = SubData(ElementArrayTypes[elements.type].size, store, 0, data)
    /\ calls' = <<>>
    /\ thrown' = NoError
    /\ UNCHANGED <<elements, array, arrays, nbuffers, domVars, inflight, ctx>>

\* the application assigns to an entry of the array it passed to the
\* constructor, which the wrapper holds by reference: indices[i] = v
AppSetIndex(i, v) ==
    /\ elements # NoObject
    /\ i \in 1..Len(elements.indices)
    /\ lastOp' = [name |-> "indices[i]=v", i |-> i, v |-> v]
    /\ elements' = [elements EXCEPT !.indices[i] = v]
    /\ calls' = <<>>
    /\ thrown' = NoError
    /\ UNCHANGED <<store, array, arrays, nbuffers, domVars, inflight, ctx>>

Init ==
    /\ elements = NoObject
    /\ store = <<>>
    /\ array = NoObject
    /\ arrays = NoObject
    /\ nbuffers = 0
    /\ calls = <<>>
    /\ thrown = NoError
    /\ lastOp = [name |-> "none"]
    /\ domLoaded = FALSE
    /\ listeners = <<>>
    /\ invoked = <<>>
    /\ inflight = NoneInFlight
    /\ ctx = FreshContext

Next ==
    \/ \E indices \in IndexLists, type \in ElementTypeArgs : NewElementArray(indices, type)
    \/ \E offset \in DrawArgs, count \in DrawArgs : drawTriangles(offset, count)
    \/ \E offset \in DrawArgs, count \in DrawArgs : drawTriangleFan(offset, count)
    \/ \E offset \in DrawArgs, count \in DrawArgs : drawTriangleStrip(offset, count)
    \/ \E vertexOffset \in VertexShifts, offset \in DrawArgs, count \in DrawArgs :
            drawTrianglesBaseVertex(vertexOffset, offset, count)
    \/ \E data \in UploadLists : AppSubData(data)
    \/ \E i \in 1..MaxIndexLen, v \in IndexValues : AppSetIndex(i, v)

Spec == Init /\ [][Next]_vars

(***************************************************************************)
(* Properties of the element array.                                        *)
(***************************************************************************)
\* the last operation was drawTrianglesBaseVertex with a non-zero vertex offset
BaseVertexShifted(op) ==
    /\ op.name = "drawTrianglesBaseVertex"
    /\ op.vertexOffset # <<>>
    /\ op.vertexOffset[1] # 0

\* the last operation was drawTrianglesBaseVertex with a zero or omitted offset
BaseVertexUnshifted(op) ==
    /\ op.name = "drawTrianglesBaseVertex"
    /\ (op.vertexOffset = <<>> \/ op.vertexOffset[1] = 0)

\* storage width in bits of an element type
ElementBits(type) == IF type = "ubyte" THEN 8 ELSE 16

\* the index list as an index buffer of the given element type stores it
StoredIndices(type, indices) ==
    [i \in 1..Len(indices) |-> indices[i] % (2 ^ ElementBits(type))]

\* C1: a drawTrianglesBaseVertex call with a non-zero vertexOffset issues
\* exactly three steps, in this order: subData(0, copy of the index list with
\* vertexOffset added to every entry), one drawElements call in TRIANGLES
\* mode, subData(0, the original index list); the index list held by the
\* wrapper is not modified by the call.
C1_ShiftDrawRestore ==
    [][BaseVertexShifted(lastOp') =>
        /\ Len(calls') = 3
        /\ calls'[1] = [fn |-> "subData", offset |-> 0,
                        data |-> [i \in 1..Len(elements.indices) |->
                                    elements.indices[i] + lastOp'.vertexOffset[1]]]
        /\ calls'[2].fn = "drawElements"
        /\ calls'[2].mode = "TRIANGLES"
        /\ calls'[3] = [fn |-> "subData", offset |-> 0, data |-> elements.indices]
        /\ elements' = elements]_vars

C1_Witness ==
    /\ BaseVertexShifted(lastOp)
    /\ Len(elements.indices) = MaxIndexLen
    /\ Len(calls) = 3
    /\ calls[1].data # elements.indices

C3_ZeroOffsetNoUpload ==
    [][BaseVertexUnshifted(lastOp') =>
        /\ Len(calls') = 1
        /\ calls'[1].fn = "drawElements"
        /\ calls'[1].elementBuffer = store
        /\ store' = store]_vars

\* the buffer holds contents other than the index list at a zero-offset draw
C3_Witness ==
    /\ BaseVertexUnshifted(lastOp)
    /\ Len(calls) = 1
    /\ Len(store) = MaxIndexLen
    /\ store # StoredIndices(elements.type, elements.indices)

ElementDrawNames ==
    {"drawTriangles", "drawTriangleFan", "drawTriangleStrip", "drawTrianglesBaseVertex"}

\* the drawElements call among the calls of the last operation
TheDrawCall ==
    CHOOSE c \in {calls[i] : i \in 1..Len(calls)} : c.fn = "drawElements"

\* C6: every element-array draw helper passes to drawElements exactly the
\* given count whenever a count is specified (0 included) and the number of
\* indices supplied at construction only when it is not; the offset defaults
\* to 0 and is passed as the byte offset offset * size(type).
C6_GivenCountIsUsed ==
    lastOp.name \in ElementDrawNames =>
        /\ TheDrawCall.count =
              (IF lastOp.count # <<>> THEN lastOp.count[1] ELSE elements.all)
        /\ TheDrawCall.offset =
              (IF lastOp.offset # <<>> THEN lastOp.offset[1] ELSE 0)
              * (IF elements.type = "ubyte" THEN 1 ELSE 2)

\* C10 as stated: at the draw call of drawTrianglesBaseVertex every position
\* of the index buffer holds indices[i] + vertexOffset, never a wrapped value.
C10_NoWrap ==
    lastOp.name = "drawTrianglesBaseVertex" =>
        \A i \in 1..Len(elements.indices) :
            TheDrawCall.elementBuffer[i] =
                elements.indices[i] + OrDefault(lastOp.vertexOffset, 0)

\* C10 amended: at the draw call of drawTrianglesBaseVertex with a non-zero
\* vertexOffset every position i of the index buffer holds
\* (indices[i] + vertexOffset) modulo 2^8 for ubyte and modulo 2^16 for
\* ushort; it holds indices[i] + vertexOffset itself exactly when that sum
\* fits the storage width.
C10_ShiftedModuloWidth ==
    BaseVertexShifted(lastOp) =>
        /\ Len(TheDrawCall.elementBuffer) = Len(elements.indices)
        /\ \A i \in 1..Len(elements.indices) :
              LET sum == elements.indices[i] + lastOp.vertexOffset[1]
                  w   == ElementBits(elements.type)
              IN  /\ TheDrawCall.elementBuffer[i] = sum % (2 ^ w)
                  /\ (TheDrawCall.elementBuffer[i] = sum) <=> (sum \in 0..(2 ^ w - 1))

\* a shifted index that does not fit the storage width of its element type
C10_Witness ==
    /\ BaseVertexShifted(lastOp)
    /\ \E i \in 1..Len(elements.indices) :
          /\ elements.indices[i] + lastOp.vertexOffset[1] > 255
          /\ elements.type = "ubyte"
    /\ \E i \in 1..Len(elements.indices) :
          TheDrawCall.elementBuffer[i] = elements.indices[i] + lastOp.vertexOffset[1]


(***************************************************************************)
(* Attribute arrays.                                                       *)
(***************************************************************************)
MaxAttribIndex == 1   \* largest attribute slot of an AttributeArray
MaxNum         == 2   \* largest number of components of an AttributeArray

AttributeTypeArgs ==
    {<<>>, <<"">>, <<"byte">>, <<"ubyte">>, <<"short">>, <<"ushort">>,
     <<"float">>, <<"int">>, <<"double">>}
BufferTypeArgs == {"static", "stream", "dynamic", "constant"}
NormalizeArgs  == {<<>>, <<FALSE>>, <<TRUE>>}
AttributeData  == {<<>>, <<1, 2>>}

\* the `types` table of context.AttributeArray
AttributeArrayTypes ==
    [byte   |-> [glType |-> "BYTE",           size |-> 1],
     ubyte  |-> [glType |-> "UNSIGNED_BYTE",  size |-> 1],
     short  |-> [glType |-> "SHORT",          size |-> 2],
     ushort |-> [glType |-> "UNSIGNED_SHORT", size |-> 2],
     float  |-> [glType |-> "FLOAT",          size |-> 4]]

\* the `buffer_types` table of context.AttributeArray
BufferTypes ==
    [static  |-> "StaticArrayBuffer",
     stream  |-> "StreamArrayBuffer",
     dynamic |-> "DynamicArrayBuffer"]

AttributeArrayTypeError ==
    "Invalid attribute type, must be one of \"byte\", \"ubyte\", \"short\", \"ushort\" and \"float\"."

\* !!normalize
ToBoolean(x) == x # <<>> /\ x[1]

\* a property name: undefined converts to the string 'undefined'
PropertyKey(x) == IF x = <<>> THEN "undefined" ELSE x[1]

\* context.AttributeArray(index, type, num, buffer_type, data, normalize)
NewAttributeArray(index, type, num, buffer_type, data, normalize) ==
    /\ array = NoObject
    /\ lastOp' = [name |-> "AttributeArray", index |-> index, type |-> type,
                  num |-> num, buffer_type |-> buffer_type, data |-> data,
                  normalize |-> normalize]
    /\ IF PropertyKey(type) \notin DOMAIN AttributeArrayTypes
       THEN /\ thrown' = AttributeArrayTypeError
            /\ calls' = <<>>
            /\ UNCHANGED <<array, nbuffers>>
       ELSE IF buffer_type \notin DOMAIN BufferTypes
       THEN /\ thrown' = "TypeError"
            /\ calls' = <<>>
            /\ UNCHANGED <<array, nbuffers>>
       ELSE /\ thrown' = NoError
            /\ nbuffers' = nbuffers + 1
            /\ array' = [kind |-> "AttributeArray", index |-> index,
                         type |-> type[1], num |-> num, normalize |-> normalize,
                         buffer |-> nbuffers + 1]
            /\ calls' = <<[fn |-> BufferTypes[buffer_type], type |-> type[1]],
                          [fn |-> "bindAndData", data |-> data]>>
    /\ UNCHANGED <<elements, store, arrays, domVars, inflight, ctx>>

\* context.vertexAttribPointer(index, size, type, normalized, stride, offset)
VertexAttribPointerCall(index, size, glType, normalized, stride, offset) ==
    [fn |-> "vertexAttribPointer", index |-> index, size |-> size,
     type |-> glType, normalized |-> normalized, stride |-> stride,
     offset |-> offset]

\* context.bindBuffer(target, buffer)
BindBufferCall(target, buffer) ==
    [fn |-> "bindBuffer", target |-> target, buffer |-> buffer]

\* calls of buffer.enable()
EnableCalls(a) == <<[fn |-> "enableVertexAttribArray", index |-> a.index]>>

\* calls of buffer.disable()
DisableCalls(a) == <<[fn |-> "disableVertexAttribArray", index |-> a.index]>>

\* calls of buffer.bind(), the method inherited from the array buffer
BindCalls(a) == <<BindBufferCall("ARRAY_BUFFER", a.buffer)>>

\* variant: stride and offset are passed on in elements, not in bytes
PointerCalls_Unscaled(a, stride, offset) ==
    <<VertexAttribPointerCall(a.index, a.num, AttributeArrayTypes[a.type].glType,
        ToBoolean(a.normalize), OrDefault(stride, 0), OrDefault(offset, 0))>>

\* calls of buffer.pointer(stride, offset)
PointerCalls(a, stride, offset) ==
    <<VertexAttribPointerCall(a.index, a.num, AttributeArrayTypes[a.type].glType,
        ToBoolean(a.normalize),
        OrDefault(stride, 0) * AttributeArrayTypes[a.type].size,
        OrDefault(offset, 0) * AttributeArrayTypes[a.type].size)>>

\* variant: the pointer is set before the buffer is bound
BindAndPointerCalls_PointerFirst(a, stride, offset) ==
    <<VertexAttribPointerCall(a.index, a.num, AttributeArrayTypes[a.type].glType,
        ToBoolean(a.normalize),
        OrDefault(stride, 0) * AttributeArrayTypes[a.type].size,
        OrDefault(offset, 0) * AttributeArrayTypes[a.type].size),
      BindBufferCall("ARRAY_BUFFER", a.buffer)>>

\* calls of buffer.bindAndPointer(stride, offset)
BindAndPointerCalls(a, stride, offset) ==
    <<BindBufferCall("ARRAY_BUFFER", a.buffer),
      VertexAttribPointerCall(a.index, a.num, AttributeArrayTypes[a.type].glType,
        ToBoolean(a.normalize),
        OrDefault(stride, 0) * AttributeArrayTypes[a.type].size,
        OrDefault(offset, 0) * AttributeArrayTypes[a.type].size)>>

\* calls of buffer.enableBindAndPointer(stride, offset)
EnableBindAndPointerCalls(a, stride, offset) ==
    <<[fn |-> "enableVertexAttribArray", index |-> a.index],
      BindBufferCall("ARRAY_BUFFER", a.buffer),
      VertexAttribPointerCall(a.index, a.num, AttributeArrayTypes[a.type].glType,
        ToBoolean(a.normalize),
        OrDefault(stride, 0) * AttributeArrayTypes[a.type].size,
        OrDefault(offset, 0) * AttributeArrayTypes[a.type].size)>>

\* a method of the attribute array that only issues context calls
AttributeArrayMethod(op, cs) ==
    /\ array # NoObject
    /\ lastOp' = op
    /\ calls' = cs
    /\ thrown' = NoError
    /\ UNCHANGED <<elements, store, array, arrays, nbuffers, domVars, inflight, ctx>>

enable  == AttributeArrayMethod([name |-> "enable"], EnableCalls(array))
disable == AttributeArrayMethod([name |-> "disable"], DisableCalls(array))
bind    == AttributeArrayMethod([name |-> "bind"], BindCalls(array))

pointer(stride, offset) ==
    AttributeArrayMethod([name |-> "pointer", stride |-> stride, offset |-> offset],
                         PointerCalls(array, stride, offset))

bindAndPointer(stride, offset) ==
    AttributeArrayMethod([name |-> "bindAndPointer", stride |-> stride, offset |-> offset],
                         BindAndPointerCalls(array, stride, offset))

enableBindAndPointer(stride, offset) ==
    AttributeArrayMethod([name |-> "enableBindAndPointer", stride |-> stride, offset |-> offset],
                         EnableBindAndPointerCalls(array, stride, offset))

NextNewAttributeArray ==
    \E index \in 0..MaxAttribIndex, type \in AttributeTypeArgs, num \in 1..MaxNum,
       buffer_type \in BufferTypeArgs, data \in AttributeData,
       normalize \in NormalizeArgs :
        NewAttributeArray(index, type, num, buffer_type, data, normalize)

NextAttr ==
    \/ NextNewAttributeArray
    \/ enable
    \/ disable
    \/ bind
    \/ \E stride \in OptArgs, offset \in OptArgs : pointer(stride, offset)
    \/ \E stride \in OptArgs, offset \in OptArgs : bindAndPointer(stride, offset)
    \/ \E stride \in OptArgs, offset \in OptArgs : enableBindAndPointer(stride, offset)

SpecAttr == Init /\ [][NextAttr]_vars

\* the two array constructors alone
NextCtor ==
    \/ \E indices \in IndexLists, type \in ElementTypeArgs : NewElementArray(indices, type)
    \/ NextNewAttributeArray

SpecCtor == Init /\ [][NextCtor]_vars

(***************************************************************************)
(* Properties of the constructors and of the attribute array.              *)
(***************************************************************************)
\* no object, buffer or buffer content changes in this step and no call is issued
NothingCreated ==
    /\ calls' = <<>>
    /\ nbuffers' = nbuffers
    /\ store' = store
    /\ elements' = elements
    /\ array' = array

\* C4: constructing an AttributeArray with a type name outside {byte, ubyte,
\* short, ushort, float}, or an ElementArray with a type name outside
\* {ubyte, ushort}, throws, and then no buffer has been created and no
\* context call has been made.
C4_InvalidTypeThrows ==
    [][(\/ /\ lastOp'.name = "AttributeArray"
           /\ lastOp'.type # <<>>
           /\ lastOp'.type[1] \notin {"byte", "ubyte", "short", "ushort", "float"}
        \/ /\ lastOp'.name = "ElementArray"
           /\ lastOp'.type # <<>>
           /\ lastOp'.type[1] \notin {"ubyte", "ushort"})
       => (thrown' # NoError /\ NothingCreated)]_vars

\* size in bytes and context type of an attribute type name
SizeOfType(type) ==
    CASE type \in {"byte", "ubyte"}   -> 1
      [] type \in {"short", "ushort"} -> 2
      [] type = "float"               -> 4

GLTypeOf(type) ==
    CASE type = "byte"   -> "BYTE"
      [] type = "ubyte"  -> "UNSIGNED_BYTE"
      [] type = "short"  -> "SHORT"
      [] type = "ushort" -> "UNSIGNED_SHORT"
      [] type = "float"  -> "FLOAT"

ArgOrZero(x) == IF x = <<>> THEN 0 ELSE x[1]

\* C5: pointer(stride, offset) issues exactly one vertexAttribPointer call
\* with the array's slot, its component count, the context type of its type,
\* the boolean value of its normalize flag, byte stride stride * size(type)
\* and byte offset offset * size(type), an omitted stride or offset being 0.
C5_PointerScaledBySize ==
    lastOp.name = "pointer" =>
        calls = <<[fn |-> "vertexAttribPointer",
                   index |-> array.index,
                   size |-> array.num,
                   type |-> GLTypeOf(array.type),
                   normalized |-> (array.normalize = <<TRUE>>),
                   stride |-> ArgOrZero(lastOp.stride) * SizeOfType(array.type),
                   offset |-> ArgOrZero(lastOp.offset) * SizeOfType(array.type)]>>

C5_Witness ==
    /\ lastOp.name = "pointer"
    /\ array.type = "float"
    /\ array.normalize = <<TRUE>>
    /\ lastOp.stride = <<MaxArg>>
    /\ lastOp.offset = <<1>>
    /\ calls[1].stride = 4 * MaxArg

\* C8: bindAndPointer(stride, offset) issues the calls of bind() followed by
\* those of pointer(stride, offset); enableBindAndPointer(stride, offset)
\* issues the calls of enable(), then bind(), then pointer(stride, offset).
C8_CombinedEqualsSequence ==
    /\ lastOp.name = "bindAndPointer" =>
          calls = BindCalls(array) \o PointerCalls(array, lastOp.stride, lastOp.offset)
    /\ lastOp.name = "enableBindAndPointer" =>
          calls = EnableCalls(array) \o BindCalls(array)
                    \o PointerCalls(array, lastOp.stride, lastOp.offset)

C8_Witness ==
    /\ lastOp.name = "enableBindAndPointer"
    /\ Len(calls) = 3
    /\ lastOp.stride = <<1>>
    /\ array.type = "short"
    /\ array.index = MaxAttribIndex


(***************************************************************************)
(* Attribute-array sets: construction and the draw helpers.                *)
(***************************************************************************)
\* argument lists of a draw helper: (), (offset), (offset, count)
DrawArgLists == SeqsUpTo(0..MaxArg, 2)

\* context.AttributeArrays(count)
NewAttributeArrays(count) ==
    /\ arrays = NoObject
    /\ lastOp' = [name |-> "AttributeArrays", count |-> count]
    /\ arrays' = [kind |-> "AttributeArrays", all |-> count, arrays |-> <<>>]
    /\ calls' = <<>>
    /\ thrown' = NoError
    /\ UNCHANGED <<elements, store, array, nbuffers, domVars, inflight, ctx>>

\* context.drawArrays(mode, first, count); count is undefined (<<>>) when the
\* set was built without a count and the call passes none
DrawArraysCall(mode, first, count) ==
    [fn |-> "drawArrays", mode |-> mode, first |-> first, count |-> count]

\* variant: the defaults are chosen with `||`, as the element array does
DrawArraysCalls_OrDefault(mode, all, args) ==
    LET offset == IF Len(args) < 1 \/ args[1] = 0 THEN 0 ELSE args[1]
        count  == IF Len(args) < 2 \/ args[2] = 0 THEN all ELSE <<args[2]>>
    IN  <<DrawArraysCall(mode, offset, count)>>

\* the body of the draw helpers of the set, `all` being the constructor's count
DrawArraysCalls(mode, all, args) ==
    LET count  == IF Len(args) < 2 THEN all ELSE <<args[2]>>
        offset == IF Len(args) < 1 THEN 0 ELSE args[1]
    IN  <<DrawArraysCall(mode, offset, count)>>

AttributeArraysDraw(name, mode, args) ==
    /\ arrays # NoObject
    /\ lastOp' = [name |-> name, args |-> args]
    /\ calls' = DrawArraysCalls(mode, arrays.all, args)
    /\ thrown' = NoError
    /\ UNCHANGED <<elements, store, array, arrays, nbuffers, domVars, inflight, ctx>>

\* AttributeArrays.drawTriangles(offset, count)
AttributeArrays_drawTriangles(args) ==
    AttributeArraysDraw("AttributeArrays.drawTriangles", "TRIANGLES", args)

\* AttributeArrays.drawTriangleFan(offset, count)
AttributeArrays_drawTriangleFan(args) ==
    AttributeArraysDraw("AttributeArrays.drawTriangleFan", "TRIANGLE_FAN", args)

\* AttributeArrays.drawTriangleStrip(offset, count)
AttributeArrays_drawTriangleStrip(args) ==
    AttributeArraysDraw("AttributeArrays.drawTriangleStrip", "TRIANGLE_STRIP", args)

NextSet ==
    \/ \E count \in OptArgs : NewAttributeArrays(count)
    \/ \E args \in DrawArgLists : AttributeArrays_drawTriangles(args)
    \/ \E args \in DrawArgLists : AttributeArrays_drawTriangleFan(args)
    \/ \E args \in DrawArgLists : AttributeArrays_drawTriangleStrip(args)

SpecSet == Init /\ [][NextSet]_vars

SetDrawModes ==
    [n \in {"AttributeArrays.drawTriangles", "AttributeArrays.drawTriangleFan",
            "AttributeArrays.drawTriangleStrip"} |->
        CASE n = "AttributeArrays.drawTriangles"     -> "TRIANGLES"
          [] n = "AttributeArrays.drawTriangleFan"   -> "TRIANGLE_FAN"
          [] n = "AttributeArrays.drawTriangleStrip" -> "TRIANGLE_STRIP"]

\* C7: drawTriangles, drawTriangleFan and drawTriangleStrip of a set issue one
\* drawArrays call in the matching mode with the given offset and count when
\* both are passed, the given offset and the constructor's count when only
\* the offset is passed, offset 0 and the constructor's count when no
\* argument is passed.
C7_DrawArraysDefaults ==
    lastOp.name \in DOMAIN SetDrawModes =>
        /\ Len(calls) = 1
        /\ calls[1].fn = "drawArrays"
        /\ calls[1].mode = SetDrawModes[lastOp.name]
        /\ Len(lastOp.args) = 2 =>
              calls[1].first = lastOp.args[1] /\ calls[1].count = <<lastOp.args[2]>>
        /\ Len(lastOp.args) = 1 =>
              calls[1].first = lastOp.args[1] /\ calls[1].count = arrays.all
        /\ Len(lastOp.args) = 0 =>
              calls[1].first = 0 /\ calls[1].count = arrays.all

\* a count of 0 is passed to a set built with another count
C7_Witness ==
    /\ lastOp.name = "AttributeArrays.drawTriangleFan"
    /\ lastOp.args = <<1, 0>>
    /\ arrays.all = <<MaxArg>>
    /\ calls[1].count = <<0>>

(***************************************************************************)
(* OOGL(callback) and the DOMContentLoaded event.                          *)
(***************************************************************************)
MaxListeners == 3   \* most listeners registered in a run

Functions    == {"f", "g"}
CallbackArgs == {<<>>, <<"f">>, <<"g">>, <<"text">>}

\* typeof callback === 'function'
IsFunction(callback) == callback # <<>> /\ callback[1] \in Functions

\* OOGL(callback)
OOGL(callback) ==
    /\ IsFunction(callback) => Len(listeners) < MaxListeners
    /\ lastOp' = [name |-> "OOGL", callback |-> callback]
    /\ IF IsFunction(callback)
       THEN /\ listeners' = Append(listeners, callback[1])
            /\ calls' = <<[fn |-> "addEventListener", type |-> "DOMContentLoaded",
                           useCapture |-> FALSE]>>
       ELSE /\ listeners' = listeners
            /\ calls' = <<>>
    /\ thrown' = NoError
    /\ UNCHANGED <<elements, store, array, arrays, nbuffers, domLoaded, invoked, inflight, ctx>>

\* the browser dispatches DOMContentLoaded, once: every listener registered
\* so far runs, in order of registration, and calls callback.call(OOGL, OOGL)
DOMContentLoaded ==
    /\ ~domLoaded
    /\ domLoaded' = TRUE
    /\ invoked' = invoked \o
          [i \in 1..Len(listeners) |->
              [fn |-> listeners[i], this |-> "OOGL", args |-> <<"OOGL">>]]
    /\ lastOp' = [name |-> "DOMContentLoaded"]
    /\ calls' = <<>>
    /\ thrown' = NoError
    /\ UNCHANGED <<elements, store, array, arrays, nbuffers, listeners, inflight, ctx>>

NextDom ==
    \/ \E callback \in CallbackArgs : OOGL(callback)
    \/ DOMContentLoaded

SpecDom == Init /\ [][NextDom]_vars

\* the browser does dispatch the event
SpecDomFair == SpecDom /\ WF_vars(DOMContentLoaded)

\* C9: every function passed to OOGL(callback) is eventually invoked with
\* the OOGL object as its this value and as its single argument, whenever
\* OOGL(callback) is called relative to the DOMContentLoaded event.
C9_EveryCallbackInvoked ==
    \A f \in Functions :
        (\E i \in 1..Len(listeners) : listeners[i] = f)
            ~> (\E j \in 1..Len(invoked) :
                    invoked[j] = [fn |-> f, this |-> "OOGL", args |-> <<"OOGL">>])


(***************************************************************************)
(* drawTrianglesBaseVertex step by step.  The local part of the call (the   *)
(* copy of the index list, the defaults, the loop) touches nothing shared;  *)
(* the steps that touch the context are the first upload, the draw and the  *)
(* second upload.  These specifications have no step that assigns to the    *)
(* index list, so the copy made on entry is the list shifted at the upload; *)
(* the calls pass no offset and no count.                                   *)
(***************************************************************************)
RECURSIVE SumOver(_, _)
SumOver(f, S) ==
    IF S = {} THEN 0
    ELSE LET k == CHOOSE x \in S : TRUE IN f[k] + SumOver(f, S \ {k})

\* number of calls in progress
InFlight == SumOver(inflight, FrameKinds)

Frame(pc, vertexOffset) == [pc |-> pc, vertexOffset |-> vertexOffset]

\* the call enters: lines 930-935 and the test of line 937
BaseVertexEnter(limit, vertexOffset) ==
    /\ elements # NoObject
    /\ InFlight < limit
    /\ LET vo == OrDefault(vertexOffset, 0)
       IN  inflight' = [inflight EXCEPT
              ![Frame(IF vo # 0 THEN "upload" ELSE "draw", vertexOffset)] = @ + 1]
    /\ lastOp' = [name |-> "drawTrianglesBaseVertex:enter", vertexOffset |-> vertexOffset]
    /\ calls' = <<>>
    /\ thrown' = NoError
    /\ UNCHANGED <<elements, store, array, arrays, nbuffers, domVars, ctx>>

\* lines 938-941: the loop and buffer.subData(0, shiftedIndices)
BaseVertexUpload(vertexOffset) ==
    /\ inflight[Frame("upload", vertexOffset)] > 0
    /\ LET t == ElementArrayTypes[elements.type]
           shiftedIndices == ShiftedIndices(elements.indices, vertexOffset[1])
       IN  /\ store' = SubData(t.size, store, 0, shiftedIndices)
           /\ calls' = <<SubDataCall(0, shiftedIndices)>>
    /\ inflight' = [inflight EXCEPT ![Frame("upload", vertexOffset)] = @ - 1,
                                    ![Frame("draw", vertexOffset)] = @ + 1]
    /\ lastOp' = [name |-> "drawTrianglesBaseVertex:upload", vertexOffset |-> vertexOffset]
    /\ thrown' = NoError
    /\ UNCHANGED <<elements, array, arrays, nbuffers, domVars, ctx>>

\* line 944: context.drawElements, and the test of line 946
BaseVertexDraw(vertexOffset) ==
    /\ inflight[Frame("draw", vertexOffset)] > 0
    /\ LET t == ElementArrayTypes[elements.type]
       IN  calls' = <<DrawElementsCall("TRIANGLES", elements.all, t.glType, 0, store)>>
    /\ inflight' = IF OrDefault(vertexOffset, 0) # 0
                   THEN [inflight EXCEPT ![Frame("draw", vertexOffset)] = @ - 1,
                                         ![Frame("restore", vertexOffset)] = @ + 1]
                   ELSE [inflight EXCEPT ![Frame("draw", vertexOffset)] = @ - 1]
    /\ lastOp' = [name |-> "drawTrianglesBaseVertex:draw", vertexOffset |-> vertexOffset]
    /\ thrown' = NoError
    /\ UNCHANGED <<elements, store, array, arrays, nbuffers, domVars, ctx>>

\* variant: the call returns without the second upload
BaseVertexRestore_Skip(vertexOffset) ==
    /\ inflight[Frame("restore", vertexOffset)] > 0
    /\ calls' = <<>>
    /\ inflight' = [inflight EXCEPT ![Frame("restore", vertexOffset)] = @ - 1]
    /\ lastOp' = [name |-> "drawTrianglesBaseVertex:restore",
                  vertexOffset |-> vertexOffset, before |-> store]
    /\ thrown' = NoError
    /\ UNCHANGED <<elements, store, array, arrays, nbuffers, domVars, ctx>>

\* line 947: buffer.subData(0, indices), and the return; `before` is what the
\* upload overwrites
BaseVertexRestore(vertexOffset) ==
    /\ inflight[Frame("restore", vertexOffset)] > 0
    /\ LET t == ElementArrayTypes[elements.type]
       IN  /\ store' = SubData(t.size, store, 0, elements.indices)
           /\ calls' = <<SubDataCall(0, elements.indices)>>
    /\ inflight' = [inflight EXCEPT ![Frame("restore", vertexOffset)] = @ - 1]
    /\ lastOp' = [name |-> "drawTrianglesBaseVertex:restore",
                  vertexOffset |-> vertexOffset, before |-> store]
    /\ thrown' = NoError
    /\ UNCHANGED <<elements, array, arrays, nbuffers, domVars, ctx>>

\* one thread, synchronous calls: a call starts only when none is in progress
NextSync ==
    \/ \E indices \in IndexLists, type \in ElementTypeArgs : NewElementArray(indices, type)
    \/ \E vertexOffset \in VertexShifts : BaseVertexEnter(1, vertexOffset)
    \/ \E vertexOffset \in VertexShifts : BaseVertexUpload(vertexOffset)
    \/ \E vertexOffset \in VertexShifts : BaseVertexDraw(vertexOffset)
    \/ \E vertexOffset \in VertexShifts : BaseVertexRestore(vertexOffset)
    \/ /\ inflight = NoneInFlight
       /\ \E offset \in DrawArgs, count \in DrawArgs : drawTriangles(offset, count)
    \/ /\ inflight = NoneInFlight
       /\ \E offset \in DrawArgs, count \in DrawArgs : drawTriangleFan(offset, count)
    \/ /\ inflight = NoneInFlight
       /\ \E offset \in DrawArgs, count \in DrawArgs : drawTriangleStrip(offset, count)

SpecSync == Init /\ [][NextSync]_vars

\* calls interleaved at their steps: up to MaxCalls in progress
NextRace ==
    \/ \E indices \in IndexLists, type \in ElementTypeArgs : NewElementArray(indices, type)
    \/ \E vertexOffset \in VertexShifts : BaseVertexEnter(MaxCalls, vertexOffset)
    \/ \E vertexOffset \in VertexShifts : BaseVertexUpload(vertexOffset)
    \/ \E vertexOffset \in VertexShifts : BaseVertexDraw(vertexOffset)
    \/ \E vertexOffset \in VertexShifts : BaseVertexRestore(vertexOffset)

SpecRace == Init /\ [][NextRace]_vars

\* the index list shifted by a vertex offset, as the index buffer stores it
StoredShifted(type, indices, shift) ==
    [i \in 1..Len(indices) |-> (indices[i] + shift) % (2 ^ ElementBits(type))]

\* C11: with synchronous calls on one thread, whenever no call is in
\* progress the index buffer holds the original indices (as stored in the
\* element type), after any sequence of base-vertex draws; in particular
\* every other draw helper reads the original indices, never shifted ones.
C11_OriginalBetweenCalls ==
    elements # NoObject =>
        /\ inflight = NoneInFlight =>
              store = StoredIndices(elements.type, elements.indices)
        /\ lastOp.name \in {"drawTriangles", "drawTriangleFan", "drawTriangleStrip"} =>
              calls[1].elementBuffer = StoredIndices(elements.type, elements.indices)

\* a call that did shift the buffer's contents has just returned
C11_Witness ==
    /\ lastOp.name = "drawTrianglesBaseVertex:restore"
    /\ inflight = NoneInFlight
    /\ Len(elements.indices) = MaxIndexLen
    /\ lastOp.before # store
    /\ store = StoredIndices(elements.type, elements.indices)

\* offsets of the calls in progress that have uploaded and not yet restored
UploadedShifts ==
    {k.vertexOffset[1] : k \in {f \in FrameKinds :
        /\ inflight[f] > 0
        /\ f.pc \in {"draw", "restore"}
        /\ f.vertexOffset # <<>>
        /\ f.vertexOffset[1] # 0}}

\* C12: with calls interleaved at their upload / draw / restore steps, a draw
\* reads either the original indices or the indices shifted by the offset of
\* some call in progress, not necessarily its own: a draw is reachable that
\* reads a buffer not shifted by its own offset (C12_Witness).
C12_DrawReadsSomeCallsShift ==
    lastOp.name = "drawTrianglesBaseVertex:draw" =>
        \/ calls[1].elementBuffer = StoredIndices(elements.type, elements.indices)
        \/ \E shift \in UploadedShifts :
              calls[1].elementBuffer = StoredShifted(elements.type, elements.indices, shift)

\* a draw of a call with a non-zero offset reads the buffer as another call
\* with a different offset has left it
C12_Witness ==
    /\ lastOp.name = "drawTrianglesBaseVertex:draw"
    /\ lastOp.vertexOffset # <<>>
    /\ lastOp.vertexOffset[1] # 0
    /\ calls[1].elementBuffer #
          StoredShifted(elements.type, elements.indices, lastOp.vertexOffset[1])
    /\ \E shift \in UploadedShifts \ {lastOp.vertexOffset[1]} :
          calls[1].elementBuffer = StoredShifted(elements.type, elements.indices, shift)

\* C13: for every interleaving of drawTrianglesBaseVertex calls, with zero
\* and non-zero offsets, once all the calls have completed the index buffer
\* holds the original indices.
C13_OriginalWhenAllComplete ==
    (elements # NoObject /\ InFlight = 0) =>
        \A i \in 1..Len(elements.indices) :
            store[i] = elements.indices[i] % (2 ^ ElementBits(elements.type))

\* the last call to return overwrites contents that are not its own shifted
\* list: another call has written the buffer since this one uploaded
C13_Witness ==
    /\ lastOp.name = "drawTrianglesBaseVertex:restore"
    /\ InFlight = 0
    /\ Len(elements.indices) = MaxIndexLen
    /\ lastOp.before #
          StoredShifted(elements.type, elements.indices, lastOp.vertexOffset[1])
    /\ store = StoredIndices(elements.type, elements.indices)


(***************************************************************************)
(* Attribute-array sets: the arrays of the set and the calls on all of     *)
(* them, with the attribute state of the context they act on.              *)
(***************************************************************************)
MaxArrays == 2   \* most arrays added to the set

\* the inputs taken for the methods of a set: add1 and add4ub stand for the
\* add methods, which differ in component count and type name only
SetCounts    == {<<>>, <<3>>}
SetNums      == {1}
SetTypeArgs  == {<<"float">>, <<"int">>}
SetTypedNums == {4}
SetSuffixes  == {"ub"}
SetData      == <<1, 2>>
SetStrides   == {<<>>, <<2>>}
SetOffsets   == {<<>>, <<1>>}
SetDrawArgs  == {<<>>, <<1, 2>>}

\* type names of the typed add methods: addNb, addNub, addNs, addNus, addNf
TypedSuffix ==
    [b |-> "byte", ub |-> "ubyte", s |-> "short", us |-> "ushort", f |-> "float"]

\* effect of one context call on the attribute state of the context.  A
\* deleted buffer cannot be bound (the binding stays as it is); a pointer
\* call records the buffer bound to ARRAY_BUFFER, and is rejected when
\* nothing is bound and the offset is not 0; deleting the bound buffer
\* unbinds it.
ApplyCall(c, call) ==
    CASE call.fn = "enableVertexAttribArray" ->
            [c EXCEPT !.enabled = @ \cup {call.index}]
      [] call.fn = "disableVertexAttribArray" ->
            [c EXCEPT !.enabled = @ \ {call.index}]
      [] call.fn = "bindBuffer" ->
            IF call.buffer \in c.deleted THEN c
            ELSE [c EXCEPT !.arrayBuffer = call.buffer]
      [] call.fn = "vertexAttribPointer" ->
            IF \/ call.index \notin DOMAIN c.pointer
               \/ (c.arrayBuffer = 0 /\ call.offset # 0)
            THEN c
            ELSE [c EXCEPT !.pointer[call.index] = c.arrayBuffer]
      [] call.fn = "deleteBuffer" ->
            [c EXCEPT !.deleted = @ \cup {call.buffer},
                      !.arrayBuffer = IF @ = call.buffer THEN 0 ELSE @]
      [] OTHER -> c

RECURSIVE ApplyCalls(_, _)
ApplyCalls(c, cs) ==
    IF cs = <<>> THEN c ELSE ApplyCalls(ApplyCall(c, Head(cs)), Tail(cs))

\* concatenation of a sequence of call sequences
RECURSIVE Flatten(_)
Flatten(ss) == IF ss = <<>> THEN <<>> ELSE Head(ss) \o Flatten(Tail(ss))

\* variant: every array of the set is given slot 0
AddArray_SlotZero(name, num, type, normalize) ==
    /\ arrays # NoObject
    /\ Len(arrays.arrays) < MaxArrays
    /\ lastOp' = [name |-> name, num |-> num, type |-> type, normalize |-> normalize]
    /\ IF PropertyKey(type) \notin DOMAIN AttributeArrayTypes
       THEN /\ thrown' = AttributeArrayTypeError
            /\ calls' = <<>>
            /\ UNCHANGED <<arrays, nbuffers, ctx>>
       ELSE /\ thrown' = NoError
            /\ nbuffers' = nbuffers + 1
            /\ arrays' = [arrays EXCEPT !.arrays = Append(@,
                  [kind |-> "AttributeArray", index |-> 0,
                   type |-> type[1], num |-> num, normalize |-> normalize,
                   buffer |-> nbuffers + 1])]
            /\ calls' = <<[fn |-> BufferTypes["static"], type |-> type[1]],
                          [fn |-> "bindAndData", data |-> SetData]>>
            /\ ctx' = [ctx EXCEPT !.arrayBuffer = nbuffers + 1]
    /\ UNCHANGED <<elements, store, array, domVars, inflight>>

\* arrays.push(new context.AttributeArrayN(arrays.length, type, data, normalize)):
\* the factory builds a static AttributeArray of N components, which throws
\* for an invalid type before anything is pushed
AddArray(name, num, type, normalize) ==
    /\ arrays # NoObject
    /\ Len(arrays.arrays) < MaxArrays
    /\ lastOp' = [name |-> name, num |-> num, type |-> type, normalize |-> normalize]
    /\ IF PropertyKey(type) \notin DOMAIN AttributeArrayTypes
       THEN /\ thrown' = AttributeArrayTypeError
            /\ calls' = <<>>
            /\ UNCHANGED <<arrays, nbuffers, ctx>>
       ELSE /\ thrown' = NoError
            /\ nbuffers' = nbuffers + 1
            /\ arrays' = [arrays EXCEPT !.arrays = Append(@,
                  [kind |-> "AttributeArray", index |-> Len(arrays.arrays),
                   type |-> type[1], num |-> num, normalize |-> normalize,
                   buffer |-> nbuffers + 1])]
            /\ calls' = <<[fn |-> BufferTypes["static"], type |-> type[1]],
                          [fn |-> "bindAndData", data |-> SetData]>>
            /\ ctx' = [ctx EXCEPT !.arrayBuffer = nbuffers + 1]
    /\ UNCHANGED <<elements, store, array, domVars, inflight>>

\* add1 .. add4 (type, data, normalize)
add(num, type, normalize) == AddArray("add", num, type, normalize)

\* add1b .. add4f (data, normalize)
addTyped(num, suffix, normalize) ==
    AddArray("add" \o suffix, num, <<TypedSuffix[suffix]>>, normalize)

\* calls of AttributeArrays.enable()
SetEnableCalls(as) ==
    [i \in 1..Len(as) |-> [fn |-> "enableVertexAttribArray", index |-> i - 1]]

\* variant: the last slot is left enabled
SetDisableCalls_AllButLast(as) ==
    [i \in 1..(Len(as) - 1) |-> [fn |-> "disableVertexAttribArray", index |-> i - 1]]

\* calls of AttributeArrays.disable()
SetDisableCalls(as) ==
    [i \in 1..Len(as) |-> [fn |-> "disableVertexAttribArray", index |-> i - 1]]

\* calls of AttributeArrays.bindAndPointer(stride, offset)
SetBindAndPointerCalls(as, stride, offset) ==
    Flatten([i \in 1..Len(as) |-> BindAndPointerCalls(as[i], stride, offset)])

\* calls of AttributeArrays.enableBindAndPointer(stride, offset)
SetEnableBindAndPointerCalls(as, stride, offset) ==
    Flatten([i \in 1..Len(as) |->
        <<[fn |-> "enableVertexAttribArray", index |-> i - 1]>>
            \o BindAndPointerCalls(as[i], stride, offset)])

\* calls of AttributeArrays._delete(): each array's own _delete()
SetDeleteCalls(as) ==
    [i \in 1..Len(as) |-> [fn |-> "deleteBuffer", buffer |-> as[i].buffer]]

\* a method of the set that only issues context calls
AttributeArraysMethod(op, cs) ==
    /\ arrays # NoObject
    /\ lastOp' = op
    /\ calls' = cs
    /\ ctx' = ApplyCalls(ctx, cs)
    /\ thrown' = NoError
    /\ UNCHANGED <<elements, store, array, arrays, nbuffers, domVars, inflight>>

AttributeArrays_enable ==
    AttributeArraysMethod([name |-> "AttributeArrays.enable"],
                          SetEnableCalls(arrays.arrays))

AttributeArrays_disable ==
    AttributeArraysMethod([name |-> "AttributeArrays.disable"],
                          SetDisableCalls(arrays.arrays))

AttributeArrays_bindAndPointer(stride, offset) ==
    AttributeArraysMethod([name |-> "AttributeArrays.bindAndPointer",
                           stride |-> stride, offset |-> offset],
                          SetBindAndPointerCalls(arrays.arrays, stride, offset))

AttributeArrays_enableBindAndPointer(stride, offset) ==
    AttributeArraysMethod([name |-> "AttributeArrays.enableBindAndPointer",
                           stride |-> stride, offset |-> offset],
                          SetEnableBindAndPointerCalls(arrays.arrays, stride, offset))

AttributeArrays_delete ==
    AttributeArraysMethod([name |-> "AttributeArrays._delete"],
                          SetDeleteCalls(arrays.arrays))

NextArrays ==
    \/ \E count \in SetCounts : NewAttributeArrays(count)
    \/ \E num \in SetNums, type \in SetTypeArgs : add(num, type, <<>>)
    \/ \E num \in SetTypedNums, suffix \in SetSuffixes : addTyped(num, suffix, <<TRUE>>)
    \/ AttributeArrays_enable
    \/ AttributeArrays_disable
    \/ \E stride \in SetStrides, offset \in SetOffsets :
            AttributeArrays_bindAndPointer(stride, offset)
    \/ \E stride \in SetStrides, offset \in SetOffsets :
            AttributeArrays_enableBindAndPointer(stride, offset)
    \/ \E args \in SetDrawArgs : AttributeArrays_drawTriangles(args)
    \/ \E args \in SetDrawArgs : AttributeArrays_drawTriangleFan(args)
    \/ \E args \in SetDrawArgs : AttributeArrays_drawTriangleStrip(args)
    \/ AttributeArrays_delete

SpecArrays == Init /\ [][NextArrays]_vars

(***************************************************************************)
(* Properties of attribute-array sets                                      *)
(***************************************************************************)
ArraysOf(a) == IF a = NoObject THEN <<>> ELSE a.arrays

SetBindNames ==
    {"AttributeArrays.bindAndPointer", "AttributeArrays.enableBindAndPointer"}

\* C14: the k-th array added to a set (counting from 0) has attribute slot
\* k, so the slots of a set of n arrays are distinct and exactly 0..n-1,
\* and no operation of the set changes the slot of an array or removes an
\* array: each step keeps the arrays already in the set, as they are and
\* in their order.
C14_SlotsInOrderOfAddition ==
    [][/\ \A k \in 1..Len(ArraysOf(arrays')) : ArraysOf(arrays')[k].index = k - 1
       /\ Len(ArraysOf(arrays')) >= Len(ArraysOf(arrays))
       /\ SubSeq(ArraysOf(arrays'), 1, Len(ArraysOf(arrays))) = ArraysOf(arrays)]_vars

\* a full set of arrays of different types, after a later operation of the set
C14_Witness ==
    /\ Len(ArraysOf(arrays)) = MaxArrays
    /\ \E j, k \in 1..MaxArrays : arrays.arrays[j].type # arrays.arrays[k].type
    /\ lastOp.name = "AttributeArrays._delete"

\* C15: after bindAndPointer or enableBindAndPointer on a set of n arrays,
\* the pointer of slot i refers to the buffer of the i-th added array for
\* every i in 0..n-1, and the calls issued are those of each array's own
\* bindAndPointer / enableBindAndPointer, for i = 0..n-1 in this order.
C15_PointersReferToOwnBuffers ==
    lastOp.name \in SetBindNames =>
        /\ \A i \in 1..Len(arrays.arrays) :
                ctx.pointer[i - 1] = arrays.arrays[i].buffer
        /\ lastOp.name = "AttributeArrays.bindAndPointer" =>
                calls = Flatten([i \in 1..Len(arrays.arrays) |->
                    BindAndPointerCalls(arrays.arrays[i], lastOp.stride, lastOp.offset)])
        /\ lastOp.name = "AttributeArrays.enableBindAndPointer" =>
                calls = Flatten([i \in 1..Len(arrays.arrays) |->
                    EnableBindAndPointerCalls(arrays.arrays[i], lastOp.stride, lastOp.offset)])

\* C16: the slots enabled through a set are among 0..n-1, n the number of
\* arrays of the set; enable() enables exactly the slots 0..n-1, and right
\* after disable() none of them is enabled.
C16_EnabledSlotsAreOfTheSet ==
    /\ ctx.enabled \subseteq 0..(Len(ArraysOf(arrays)) - 1)
    /\ lastOp.name = "AttributeArrays.enable" =>
            /\ {calls[j].index : j \in 1..Len(calls)} = 0..(Len(arrays.arrays) - 1)
            /\ \A j \in 1..Len(calls) : calls[j].fn = "enableVertexAttribArray"
            /\ ctx.enabled = 0..(Len(arrays.arrays) - 1)
    /\ lastOp.name = "AttributeArrays.disable" =>
            ctx.enabled \cap 0..(Len(arrays.arrays) - 1) = {}

\* enable() on a full set
C16_Witness ==
    /\ lastOp.name = "AttributeArrays.enable"
    /\ Len(arrays.arrays) = MaxArrays
    /\ ctx.enabled = 0..(MaxArrays - 1)

\* C17: the buffers of a set are deleted by _delete() only, which deletes
\* the buffer of every array exactly once, and no operation of the set
\* passes a buffer to the context that was deleted before the operation.
C17_NoUseAfterDelete ==
    [][/\ ctx'.deleted # ctx.deleted => lastOp'.name = "AttributeArrays._delete"
       /\ lastOp'.name = "AttributeArrays._delete" =>
            /\ Len(calls') = Len(arrays.arrays)
            /\ \A i \in 1..Len(arrays.arrays) :
                    calls'[i] = [fn |-> "deleteBuffer", buffer |-> arrays.arrays[i].buffer]
            /\ \A i, j \in 1..Len(calls') : calls'[i] = calls'[j] => i = j
       /\ \A j \in 1..Len(calls') :
            calls'[j].fn \in {"bindBuffer", "deleteBuffer"} =>
                calls'[j].buffer \notin ctx.deleted]_vars

====
